---- MODULE Spec2Model ----
(***************************************************************************)
(* A model of the LanguageClient neovim plugin                              *)
(* (rplugin/python3/LanguageClient/LanguageClient.py) together with the two *)
(* collaborators it drives: the JSON-RPC transport (class RPC) and the      *)
(* per-document state (class TextDocumentItem).  The plugin class is        *)
(* translated from its source; RPC and TextDocumentItem are imported by     *)
(* the plugin but their files are not part of the sources at hand, so they  *)
(* are modelled from the design document (spec.md sections 4.2-4.4).        *)
(***************************************************************************)
EXTENDS Integers, Sequences, FiniteSets, TLC

(***************************************************************************)
(* Bounds of the model.                                                     *)
(***************************************************************************)
\* number of server subprocesses LanguageClientStart may bring up
MaxProcs == 2
\* number of requests the client may issue, over all its RPC instances
MaxCalls == 2
\* highest document version a didChange may produce
MaxVersion == 2
\* number of lines of a buffer in the diff specification
MaxLines == 3

(***************************************************************************)
(* Values.                                                                  *)
(***************************************************************************)
NL == "\n"
None == "None"
\* buffers whose filetype has an entry in g:LanguageClient_serverCommands
Uris == {"a", "b"}
\* a buffer whose filetype has no server command
NoCmdBuf == "n"
Bufs == Uris \cup {NoCmdBuf}
\* a line of a buffer, as its characters
Lines == {<< >>, <<"x">>, <<"y">>}
\* opaque JSON results a server may answer with
Results == {"r1", "r2"}

RECURSIVE SeqsUpTo(_, _)
SeqsUpTo(S, n) ==
    IF n = 0 THEN {<< >>}
    ELSE LET shorter == SeqsUpTo(S, n - 1)
         IN  shorter \cup {Append(s, x) : s \in {t \in shorter : Len(t) = n - 1}, x \in S}

\* getline(1, "$") never returns an empty list: an empty buffer is one empty line
BuffersUpTo(n) == SeqsUpTo(Lines, n) \ {<< >>}

(***************************************************************************)
(* Text: the full text of a buffer as the plugin builds it.                 *)
(***************************************************************************)
RECURSIVE BufferText(_)
\* str.join("", [l + "\n" for l in getline(1, "$")])
BufferText(ls) ==
    IF ls = << >> THEN << >>
    ELSE Head(ls) \o <<NL>> \o BufferText(Tail(ls))

(***************************************************************************)
(* TextDocumentItem (spec.md 3 and 4.4): the line diff and its inverse.     *)
(***************************************************************************)
RECURSIVE SplitFrom(_, _)
\* the lines of a text, each with its terminator; cur is the line being read
SplitFrom(text, cur) ==
    IF text = << >> THEN (IF cur = << >> THEN << >> ELSE <<cur>>)
    ELSE IF Head(text) = NL
         THEN <<Append(cur, NL)>> \o SplitFrom(Tail(text), << >>)
         ELSE SplitFrom(Tail(text), Append(cur, Head(text)))

SplitLines(text) == SplitFrom(text, << >>)

RECURSIVE Concat(_)
Concat(ss) == IF ss = << >> THEN << >> ELSE Head(ss) \o Concat(Tail(ss))

Min(a, b) == IF a <= b THEN a ELSE b

\* number of leading lines two line lists share
CommonPrefix(o, n) ==
    LET m == Min(Len(o), Len(n))
        agree == {k \in 0..m : \A i \in 1..k : o[i] = n[i]}
    IN  CHOOSE k \in agree : \A j \in agree : j <= k

\* number of trailing lines two line lists share beyond the first p lines
CommonSuffix(o, n, p) ==
    LET m == Min(Len(o), Len(n)) - p
        agree == {k \in 0..m : \A i \in 1..k : o[Len(o) + 1 - i] = n[Len(n) + 1 - i]}
    IN  CHOOSE k \in agree : \A j \in agree : j <= k

FullReplacement(newText) == [kind |-> "full", newText |-> newText]

Incremental(sl, sc, el, ec, newText) ==
    [kind |-> "incremental",
     range |-> [start |-> [line |-> sl, character |-> sc],
                end |-> [line |-> el, character |-> ec]],
     newText |-> newText]

\* faulty variant of Diff: the full replacement is taken whenever the two
\* texts share no line at either end, a one-line document included
Diff_FullWhenNoSharedLine(oldText, newText) ==
    LET o == SplitLines(oldText)
        n == SplitLines(newText)
        p == CommonPrefix(o, n)
        s == CommonSuffix(o, n, p)
    IN  IF p = 0 /\ s = 0
        THEN <<FullReplacement(newText)>>
        ELSE <<Incremental(p, 0, Len(o) - s, 0,
                           Concat(SubSeq(n, p + 1, Len(n) - s)))>>

\* the ordered ChangeEvents that turn oldText into newText: one incremental
\* event over the changed block of lines, or one full replacement when the
\* two texts share no line at either end; a single line replaced by a single
\* line is always an incremental event of that line (spec.md 8, diff
\* minimality on simple edits)
Diff(oldText, newText) ==
    LET o == SplitLines(oldText)
        n == SplitLines(newText)
        p == CommonPrefix(o, n)
        s == CommonSuffix(o, n, p)
    IN  IF p = 0 /\ s = 0 /\ ~(Len(o) = 1 /\ Len(n) = 1)
        THEN <<FullReplacement(newText)>>
        ELSE <<Incremental(p, 0, Len(o) - s, 0,
                           Concat(SubSeq(n, p + 1, Len(n) - s)))>>

\* the offset of position (line, character) in a text
Offset(text, pos) ==
    LET ls == SplitLines(text)
    IN  Len(Concat(SubSeq(ls, 1, Min(pos.line, Len(ls))))) + pos.character

\* what a receiver of one ChangeEvent does to its copy of the text
ApplyEvent(text, ev) ==
    IF ev.kind = "full" THEN ev.newText
    ELSE LET so == Offset(text, ev.range.start)
             eo == Offset(text, ev.range.end)
         IN  SubSeq(text, 1, so) \o ev.newText \o SubSeq(text, eo + 1, Len(text))

RECURSIVE ApplyEvents(_, _)
ApplyEvents(text, evs) ==
    IF evs = << >> THEN text
    ELSE ApplyEvents(ApplyEvent(text, Head(evs)), Tail(evs))

\* TextDocumentItem(uri, languageId, text)
NewTextDocumentItem(uri, languageId, text) ==
    [uri |-> uri, languageId |-> languageId, version |-> 1, text |-> text]

\* TextDocumentItem.change(newText): the item after the change, the version
\* and the ChangeEvents it returns
Change(item, newText) ==
    [item |-> [item EXCEPT !.version = item.version + 1, !.text = newText],
     version |-> item.version + 1,
     changes |-> Diff(item.text, newText)]


(***************************************************************************)
(* State.                                                                   *)
(***************************************************************************)
VARIABLES
    server,         \* self.server: 0 is None, p > 0 the p-th subprocess launched
    serverUp,       \* self.server.poll() is None: that subprocess still runs
    rpc,            \* self.rpc: 0 while the attribute is unset, else the
                    \* subprocess whose pipes the RPC object wraps
    rpcs,           \* the RPC objects: id counter, pending mapping, serve loop
    capabilities,   \* self.capabilities
    textDocuments,  \* self.textDocuments: uri -> TextDocumentItem
    curBuf,         \* nvim.current.buffer
    bufLines,       \* getline(1, "$") of the current buffer
    cur,            \* the handler running on the plugin host: op, stage, args
    todo,           \* the calls start() has still to make
    read,           \* the frame a serve loop read in the latest step
    out,            \* the frame written to a server by the latest step
    called,         \* the pending callback invoked by the latest step
    errored,        \* the message handed to handleError by the latest step
    asyncOut,       \* what the latest step handed to nvim.async_call
    raised,         \* the exception that left the handler in the latest step
    serverDocs,     \* the documents held by the server behind self.rpc, a
                    \* server that replays didOpen/didChange/didClose in
                    \* wire order
    invokedIds,     \* the (rpc, id) whose callback has been invoked
    lastId          \* per RPC, the id of the latest request it wrote

vars == <<server, serverUp, rpc, rpcs, capabilities, textDocuments,
          curBuf, bufLines, cur, todo, read, out, called, errored, asyncOut,
          raised, serverDocs, invokedIds, lastId>>

Procs == 1..MaxProcs

EmptyFn == [x \in {} |-> None]
Put(f, k, v) == [x \in DOMAIN f \cup {k} |-> IF x = k THEN v ELSE f[x]]
Remove(f, k) == [x \in DOMAIN f \ {k} |-> f[x]]

NoParams == [none |-> TRUE]
NoFrame == [proc |-> 0, id |-> 0, method |-> None, params |-> NoParams]
NoCall == [proc |-> 0, id |-> 0, cb |-> None, result |-> None]
NoMessage == [id |-> 0, method |-> None, result |-> None, error |-> FALSE,
              params |-> None, garbage |-> FALSE]
NoRead == [proc |-> 0, msg |-> NoMessage]
Idle == [op |-> "idle", uri |-> None, cb |-> None]

\* the serve loop of an RPC: "none" before the RPC exists
NoRpc == [mid |-> 1, queue |-> EmptyFn, loop |-> "none"]
\* RPC(infile, outfile, onRequest, onNotification, onError)
NewRpc == [mid |-> 1, queue |-> EmptyFn, loop |-> "running"]

\* &filetype of the current buffer has an entry in self.serverCommands
HasServerCommand(buf) == buf \in Uris

\* self.alive(): self.server is not None and self.server.poll() is None
alive == server # 0 /\ serverUp

\* the warning alive(warn=True) echoes when the server is not running
NotRunningEcho == <<"Language client is not running. Try :LanguageClientStart">>

\* the outfile of RPC p accepts a write: its subprocess has not exited
Writable(p) == p # 0 /\ p = server /\ serverUp


(***************************************************************************)
(* A step's effect: the value every variable the program owns takes, and    *)
(* what the step wrote, invoked, handed off and raised.                     *)
(***************************************************************************)
Keep ==
    [server |-> server, serverUp |-> serverUp, rpc |-> rpc, rpcs |-> rpcs,
     capabilities |-> capabilities,
     textDocuments |-> textDocuments, curBuf |-> curBuf, bufLines |-> bufLines,
     cur |-> cur, todo |-> todo,
     read |-> NoRead, out |-> NoFrame, called |-> NoCall, errored |-> NoMessage,
     asyncOut |-> << >>, raised |-> None]

\* the server model: what one outbound frame does to the documents it holds
ServerReplay(docs, f) ==
    IF f.method = "textDocument/didOpen"
    THEN LET item == f.params.textDocument.textDocument
         IN  Put(docs, item.uri, [version |-> item.version, text |-> item.text])
    ELSE IF f.method = "textDocument/didChange"
    THEN LET u == f.params.textDocument.uri
         IN  IF u \in DOMAIN docs
             THEN Put(docs, u, [version |-> f.params.textDocument.version,
                                text |-> ApplyEvents(docs[u].text, f.params.contentChanges)])
             ELSE docs
    ELSE IF f.method = "textDocument/didClose"
    THEN Remove(docs, f.params.textDocument.uri)
    ELSE docs

Commit(e) ==
    /\ server' = e.server
    /\ serverUp' = e.serverUp
    /\ rpc' = e.rpc
    /\ rpcs' = e.rpcs
    /\ capabilities' = e.capabilities
    /\ textDocuments' = e.textDocuments
    /\ curBuf' = e.curBuf
    /\ bufLines' = e.bufLines
    /\ cur' = e.cur
    /\ todo' = e.todo
    /\ read' = e.read
    /\ out' = e.out
    /\ called' = e.called
    /\ errored' = e.errored
    /\ asyncOut' = e.asyncOut
    /\ raised' = e.raised
    /\ serverDocs' = IF e.rpc # rpc THEN EmptyFn
                     ELSE IF e.out.proc = 0 THEN serverDocs
                     ELSE ServerReplay(serverDocs, e.out)
    /\ invokedIds' = IF e.called.proc = 0 THEN invokedIds
                     ELSE invokedIds \cup {<<e.called.proc, e.called.id>>}
    /\ lastId' = IF e.out.id = 0 THEN lastId
                 ELSE [lastId EXCEPT ![e.out.proc] = e.out.id]

(***************************************************************************)
(* RPC (spec.md 4.1-4.3): call, notify and the serve loop.                  *)
(***************************************************************************)
\* faulty variant of NextId: the id is taken from the size of the pending
\* mapping, so it falls back once a response has been dispatched
NextId_QueueSize(r) == Cardinality(DOMAIN r.queue) + 1

\* the id a call allocates on an RPC whose counter stands at mid
NextId(r) == r.mid

\* faulty variant of RpcCall: the callback is registered before the write
\* is attempted, and stays registered when the write fails
RpcCall_RegistersFirst(e, method, params, cb) ==
    IF e.rpc = 0 THEN [e EXCEPT !.raised = "AttributeError"]
    ELSE LET r == e.rpcs[e.rpc]
             id == NextId(r)
             registered == [e EXCEPT !.rpcs[e.rpc].mid = id + 1,
                                     !.rpcs[e.rpc].queue = Put(r.queue, id, cb)]
         IN  IF ~Writable(e.rpc) THEN [registered EXCEPT !.raised = "TransportClosed"]
             ELSE [registered EXCEPT !.out = [proc |-> e.rpc, id |-> id,
                                              method |-> method, params |-> params]]

\* self.rpc.call(method, params, cb) after the effect e
RpcCall(e, method, params, cb) ==
    IF e.rpc = 0 THEN [e EXCEPT !.raised = "AttributeError"]
    ELSE IF ~Writable(e.rpc) THEN [e EXCEPT !.raised = "TransportClosed"]
    ELSE LET r == e.rpcs[e.rpc]
             id == NextId(r)
         IN  [e EXCEPT !.rpcs[e.rpc].mid = id + 1,
                       !.rpcs[e.rpc].queue = Put(r.queue, id, cb),
                       !.out = [proc |-> e.rpc, id |-> id, method |-> method,
                                params |-> params]]

\* self.rpc.notify(method, params) after the effect e
RpcNotify(e, method, params) ==
    IF e.rpc = 0 THEN [e EXCEPT !.raised = "AttributeError"]
    ELSE IF ~Writable(e.rpc) THEN [e EXCEPT !.raised = "TransportClosed"]
    ELSE [e EXCEPT !.out = [proc |-> e.rpc, id |-> 0, method |-> method,
                            params |-> params]]

(***************************************************************************)
(* Hand-offs to the editor and the callbacks of the plugin.                 *)
(***************************************************************************)
\* self.asyncEcho(message)
asyncEcho(e, message) == [e EXCEPT !.asyncOut = Append(@, <<"echo">> \o message)]

\* self.asyncCommand(cmds)
asyncCommand(e, cmds) == [e EXCEPT !.asyncOut = Append(@, <<"command">> \o cmds)]

\* faulty variant of handleError: the message is taken and nothing is echoed
handleError_Silent(e, message) == [e EXCEPT !.errored = message]

\* self.handleError(message)
handleError(e, message) ==
    asyncEcho([e EXCEPT !.errored = message], <<"json.dumps(message)">>)

\* self.handleInitializeResponse(result)
handleInitializeResponse(e, result) ==
    asyncEcho([e EXCEPT !.capabilities = <<"capabilities", result>>],
              <<"LanguageClient initialization finished.">>)

\* the default callbacks of hover, definition, rename, documentSymbol and
\* workspace_symbol: each only hands editor actions off
handleResponse(e, cb, result) ==
    IF cb = "handleTextDocumentDefinitionResponse"
    THEN asyncCommand(asyncCommand(e, <<"edit", result>>), <<"normal", result>>)
    ELSE IF cb = "handleTextDocumentRenameResponse"
    THEN asyncCommand(asyncCommand(asyncCommand(e, <<"edit", result>>),
                                   <<"buffer", result>>), <<"normal", result>>)
    ELSE IF cb = "handleTextDocumentDocumentSymbolResponse"
    THEN asyncCommand(e, <<"fzf", result>>)
    ELSE asyncEcho(e, <<cb, result>>)

\* cb(result) for the callback a call registered
InvokeCallback(e, cb, result) ==
    IF cb = "handleInitializeResponse" THEN handleInitializeResponse(e, result)
    ELSE IF cb = "userCb" THEN e
    ELSE handleResponse(e, cb, result)


\* self.textDocument_publishDiagnostics(params): one echo per diagnostic
textDocument_publishDiagnostics(e, params) ==
    IF params = "diagnostics" THEN asyncEcho(e, <<"diagnostic">>) ELSE e

\* the attributes of the plugin object that hasattr(self, method) finds for
\* the methods a server names here: its one handler of server messages and
\* the handlers of editor events of the same names
HandlerNames == {"textDocument_publishDiagnostics", "exit", "initialize",
                 "textDocument_didClose", "textDocument_didOpen"}

\* message['method'].replace('/', '_')
MethodAttr(method) ==
    IF method = "textDocument/publishDiagnostics"
    THEN "textDocument_publishDiagnostics"
    ELSE IF method = "textDocument/didClose" THEN "textDocument_didClose"
    ELSE IF method = "textDocument/didOpen" THEN "textDocument_didOpen"
    ELSE IF method = "window/logMessage" THEN "window_logMessage"
    ELSE method

\* params of a server message that are a list of one dict naming every
\* argument of an editor function: [{"uri": "a", "rootPath": "root"}]
ArgsParams == "args"
ArgsUri == "a"

\* getattr(self, method)(message['params']) on the serve thread.  The
\* handlers of editor events take the params as their args; getArgs reads
\* nvim.current.buffer for its uri default even when args names the uri, a
\* request to the editor from the serve thread that may fail (fails)
Dispatch(e, message, fails) ==
    LET attr == MethodAttr(message.method)
        params == message.params
    IN  IF params = None THEN [e EXCEPT !.raised = "KeyError"]
        ELSE IF attr = "textDocument_publishDiagnostics"
        THEN IF params = "diagnostics" THEN textDocument_publishDiagnostics(e, params)
             ELSE [e EXCEPT !.raised = "TypeError"]
        ELSE IF attr = "textDocument_didOpen" THEN [e EXCEPT !.raised = "TypeError"]
        ELSE IF ~alive THEN asyncEcho(e, NotRunningEcho)
        ELSE IF attr = "exit" THEN RpcNotify(e, "exit", NoParams)
        ELSE IF params # ArgsParams THEN [e EXCEPT !.raised = "KeyError"]
        ELSE IF attr = "initialize"
        THEN RpcCall(e, "initialize", [rootPath |-> "root"], "handleInitializeResponse")
        ELSE IF fails THEN [e EXCEPT !.raised = "NvimError"]
        ELSE IF ArgsUri \notin DOMAIN e.textDocuments
        THEN [e EXCEPT !.raised = "KeyError"]
        ELSE RpcNotify([e EXCEPT !.textDocuments = Remove(e.textDocuments, ArgsUri)],
                       "textDocument/didClose", [textDocument |-> [uri |-> ArgsUri]])

\* faulty variant of handleRequestOrNotification: the handler is called
\* outside any try, so what it raises leaves the function
handleRequestOrNotification_NoTry(e, message, fails) ==
    IF MethodAttr(message.method) \in HandlerNames
    THEN Dispatch(e, message, fails)
    ELSE e

\* self.handleRequestOrNotification(message): whatever the handler raises
\* (params missing included) is logged, a method without handler is warned
\* about
handleRequestOrNotification(e, message, fails) ==
    IF MethodAttr(message.method) \in HandlerNames
    THEN [Dispatch(e, message, fails) EXCEPT !.raised = None]
    ELSE e

\* faulty variant of LoopEnds: the pending calls are dropped and the loop
\* goes on waiting for frames
LoopEnds_KeepsReading(e, p) == [e EXCEPT !.rpcs[p].queue = EmptyFn]

\* the serve loop of RPC p stops: the pending calls are abandoned
LoopEnds(e, p) ==
    [e EXCEPT !.rpcs[p].loop = "closed", !.rpcs[p].queue = EmptyFn]

\* faulty variant of OnFrame: the callback of a pending id is looked up and
\* invoked, and the id is left in the pending mapping
OnFrame_NoPop(e, p, m, crash) ==
    LET r == e.rpcs[p]
        pending == m.id \in DOMAIN r.queue
    IN  IF m.garbage THEN LoopEnds(e, p)
        ELSE IF pending /\ m.method = None /\ (m.result # None \/ m.error)
        THEN LET cb == r.queue[m.id]
             IN  IF m.error THEN handleError(e, m)
                 ELSE IF cb = None
                 THEN (IF crash THEN LoopEnds(e, p) ELSE e)
                 ELSE InvokeCallback(
                          [e EXCEPT !.called = [proc |-> p, id |-> m.id,
                                                 cb |-> cb, result |-> m.result]],
                          cb, m.result)
        ELSE IF m.method # None /\ ~pending
        THEN LET h == handleRequestOrNotification(e, m, crash)
             IN  IF h.raised # None THEN LoopEnds(h, p) ELSE h
        ELSE handleError(e, m)

\* RPC p classifies and dispatches one inbound message; crash says how what
\* the sources leave open turns out: whether invoking a callback that is
\* not callable ends the loop, whether a request to the editor from the
\* serve thread fails.  An exception that leaves the dispatch ends the loop
OnFrame(e, p, m, crash) ==
    LET r == e.rpcs[p]
        pending == m.id \in DOMAIN r.queue
    IN  IF m.garbage THEN LoopEnds(e, p)
        ELSE IF pending /\ m.method = None /\ (m.result # None \/ m.error)
        THEN LET cb == r.queue[m.id]
                 popped == [e EXCEPT !.rpcs[p].queue = Remove(r.queue, m.id)]
             IN  IF m.error THEN handleError(popped, m)
                 ELSE IF cb = None
                 THEN (IF crash THEN LoopEnds(popped, p) ELSE popped)
                 ELSE InvokeCallback(
                          [popped EXCEPT !.called = [proc |-> p, id |-> m.id,
                                                      cb |-> cb, result |-> m.result]],
                          cb, m.result)
        ELSE IF m.method # None /\ ~pending
        THEN LET h == handleRequestOrNotification(e, m, crash)
             IN  IF h.raised # None THEN LoopEnds(h, p) ELSE h
        ELSE handleError(e, m)

\* the frames a server may write
Response(id, result) == [NoMessage EXCEPT !.id = id, !.result = result]
ErrorResponse(id) == [NoMessage EXCEPT !.id = id, !.error = TRUE]
ServerMessage(id, method, params) ==
    [NoMessage EXCEPT !.id = id, !.method = method, !.params = params]
\* the ids a server answers to, and the ids of its error frames (0: no id)
ResponseIds == {1, 2}
ErrorIds == {0, 1}
InFrames ==
    {Response(i, x) : i \in ResponseIds, x \in Results}
    \cup {ErrorResponse(i) : i \in ErrorIds}
    \cup {ServerMessage(0, "textDocument/publishDiagnostics", "diagnostics"),
          ServerMessage(0, "textDocument/publishDiagnostics", None),
          ServerMessage(1, "window/logMessage", "diagnostics"),
          [NoMessage EXCEPT !.garbage = TRUE]}


(***************************************************************************)
(* The handlers of the plugin.  A handler runs in two steps: its alive()    *)
(* check, and the rest of its body; the server may exit in between.         *)
(***************************************************************************)
\* the handlers that call alive(warn=False)
QuietOps == {"textDocument_didOpen", "textDocument_didChange", "textDocument_didSave"}
\* the handlers that issue self.rpc.call
CallOps == {"initialize", "textDocument_hover", "textDocument_definition",
            "textDocument_documentSymbol", "textDocument_completion"}
\* the handlers the editor triggers, start apart
EditorOps == CallOps \cup QuietOps \cup {"textDocument_didClose", "exit"}

\* the args an editor event may carry: {uri?, cb?}
UriArgs(op) == IF op = "textDocument_didClose" THEN Uris \cup {None} ELSE {None}
CbArgs(op) == IF op = "initialize" THEN {None, "userCb"} ELSE {None}

\* `if not self.alive(warn): return` at the head of handler op
AliveCheck(e, op, uri, cb) ==
    IF alive THEN [e EXCEPT !.cur = [op |-> op, uri |-> uri, cb |-> cb]]
    ELSE IF op \in QuietOps THEN [e EXCEPT !.cur = Idle]
    ELSE asyncEcho([e EXCEPT !.cur = Idle], NotRunningEcho)

\* faulty variant of Finish: a handler whose call carried no callback waits
\* for the response instead of returning
Finish_WaitsForResponse(e) ==
    [e EXCEPT !.cur = IF e.out.id # 0 /\ e.rpcs[e.out.proc].queue[e.out.id] = None
                      THEN [Idle EXCEPT !.op = "waiting"] ELSE Idle,
              !.todo = IF e.raised # None THEN << >> ELSE e.todo]

\* the handler returns or raises: an exception also ends the start() it ran in
Finish(e) ==
    [e EXCEPT !.cur = Idle, !.todo = IF e.raised # None THEN << >> ELSE e.todo]

\* getArgs(args, ["uri"]): args.get("uri", pathToURI(current buffer name))
ArgUri == IF cur.uri = None THEN curBuf ELSE cur.uri

\* faulty variant of ArgCb: the cb of the args is ignored
ArgCb_IgnoresArg(default) == default

\* `if cb is None: cb = <default>`
ArgCb(default) == IF cur.cb = None THEN default ELSE cur.cb

PositionParams(uri) == [textDocument |-> [uri |-> uri], position |-> "cursor"]

\* the requests issued so far, over all RPC instances
CallsMade == Cardinality({pi \in Procs \X (1..MaxCalls) : pi[2] <= lastId[pi[1]]})

\* the editor raises an event while no handler runs
EditorEvent(op, uri, cb) ==
    /\ cur = Idle /\ todo = << >>
    /\ op \in CallOps => CallsMade < MaxCalls
    /\ IF op = "textDocument_didChange" /\ curBuf \in DOMAIN textDocuments
       THEN textDocuments[curBuf].version < MaxVersion ELSE TRUE
    /\ Commit(AliveCheck(Keep, op, uri, cb))

\* start() goes on to its next call: initialize([]), textDocument_didOpen()
StartContinues ==
    /\ cur = Idle /\ todo # << >>
    /\ Commit(AliveCheck([Keep EXCEPT !.todo = Tail(todo)], Head(todo), None, None))

\* faulty variant of ConstructRpc: an RPC is only built when self.rpc is
\* not set yet, so a restart keeps the RPC of the previous server
ConstructRpc_KeepsFirst(e, p) ==
    IF e.rpc = 0 THEN [e EXCEPT !.rpc = p, !.rpcs[p] = NewRpc] ELSE e

\* self.rpc = RPC(self.server.stdout, self.server.stdin, ...) and the start
\* of its serve thread, for the subprocess p just launched
ConstructRpc(e, p) == [e EXCEPT !.rpc = p, !.rpcs[p] = NewRpc]

\* LanguageClientStart.  self.server is only read by alive() (None or exited:
\* not alive), so a subprocess that has exited by the check after the sleep
\* leaves server and serverUp as they are: not alive, as before the launch
start(survives) ==
    /\ cur = Idle /\ todo = << >>
    /\ IF alive
       THEN Commit(asyncEcho(Keep, <<"Language client has already started.">>))
       ELSE IF ~HasServerCommand(curBuf)
       THEN Commit(asyncEcho(Keep, <<"No language server commmand found">>))
       ELSE /\ server < MaxProcs
            /\ CallsMade < MaxCalls
            /\ LET p == server + 1
               IN  IF ~survives
                   THEN Commit(asyncEcho(Keep, <<"Failed to start server.">>))
                   ELSE Commit(ConstructRpc(
                            [Keep EXCEPT !.server = p, !.serverUp = TRUE,
                                         !.todo = <<"initialize", "textDocument_didOpen">>],
                            p))

\* LanguageClient_initialize, after its alive() check
initialize ==
    /\ cur.op = "initialize"
    /\ Commit(Finish(RpcCall(Keep, "initialize", [rootPath |-> "root"],
                             ArgCb("handleInitializeResponse"))))

\* the table after textDocument_didOpen stored item under uri
OpenDocument(docs, uri, item) == Put(docs, uri, item)

\* BufReadPost, after its alive() check
textDocument_didOpen ==
    /\ cur.op = "textDocument_didOpen"
    /\ IF ~HasServerCommand(curBuf) THEN Commit(Finish(Keep))
       ELSE LET uri == ArgUri
                item == NewTextDocumentItem(uri, "filetype", BufferText(bufLines))
                stored == [Keep EXCEPT
                             !.textDocuments = OpenDocument(textDocuments, uri, item)]
            IN  Commit(Finish(RpcNotify(stored, "textDocument/didOpen",
                                        [textDocument |-> [textDocument |-> item]])))

\* faulty variant of textDocument_didClose: a uri that is not tracked is
\* passed over in silence
textDocument_didClose_IgnoresUntracked ==
    /\ cur.op = "textDocument_didClose"
    /\ LET uri == ArgUri
       IN  IF uri \notin DOMAIN textDocuments
           THEN Commit(Finish(Keep))
           ELSE Commit(Finish(RpcNotify(
                    [Keep EXCEPT !.textDocuments = Remove(textDocuments, uri)],
                    "textDocument/didClose", [textDocument |-> [uri |-> uri]])))

\* LanguageClient_textDocument_didClose, after its alive() check
textDocument_didClose ==
    /\ cur.op = "textDocument_didClose"
    /\ LET uri == ArgUri
       IN  IF uri \notin DOMAIN textDocuments
           THEN Commit(Finish([Keep EXCEPT !.raised = "KeyError"]))
           ELSE Commit(Finish(RpcNotify(
                    [Keep EXCEPT !.textDocuments = Remove(textDocuments, uri)],
                    "textDocument/didClose", [textDocument |-> [uri |-> uri]])))

\* LanguageClient_textDocument_hover, after its alive() check
textDocument_hover ==
    /\ cur.op = "textDocument_hover"
    /\ Commit(Finish(RpcCall(Keep, "textDocument/hover", PositionParams(ArgUri),
                             ArgCb("handleTextDocumentHoverResponse"))))

\* LanguageClient_textDocument_definition, after its alive() check
textDocument_definition ==
    /\ cur.op = "textDocument_definition"
    /\ Commit(Finish(RpcCall(Keep, "textDocument/definition", PositionParams(ArgUri),
                             ArgCb("handleTextDocumentDefinitionResponse"))))

\* LanguageClient_textDocument_documentSymbol, after its alive() check; the
\* callback stays None when fzf is not loaded
textDocument_documentSymbol(fzf) ==
    /\ cur.op = "textDocument_documentSymbol"
    /\ Commit(Finish(RpcCall(Keep, "textDocument/documentSymbol",
                             [textDocument |-> [uri |-> ArgUri]],
                             IF fzf THEN "handleTextDocumentDocumentSymbolResponse"
                             ELSE None)))

\* faulty variant of ChangedText: the lines are joined with "\n" between
\* them, so the last line has no terminator
ChangedText_NoFinalNewline ==
    SubSeq(BufferText(bufLines), 1, Len(BufferText(bufLines)) - 1)

\* the text textDocument_didChange reads from the current buffer
ChangedText == BufferText(bufLines)

\* TextChanged / TextChangedI, after the alive() check.  The handler passes
\* every text to change(); for a text equal to the stored one the design
\* leaves change() the choice to reject it (rejects) or to go through
textDocument_didChange(rejects) ==
    /\ cur.op = "textDocument_didChange"
    /\ LET uri == ArgUri
       IN  IF uri \notin DOMAIN textDocuments
           THEN ~rejects /\ Commit(Finish(Keep))
           ELSE IF rejects
           THEN /\ textDocuments[uri].text = ChangedText
                /\ Commit(Finish([Keep EXCEPT !.raised = "ValueError"]))
           ELSE /\ textDocuments[uri].version < MaxVersion
                /\ LET c == Change(textDocuments[uri], ChangedText)
                   IN  Commit(Finish(RpcNotify(
                           [Keep EXCEPT !.textDocuments[uri] = c.item],
                           "textDocument/didChange",
                           [textDocument |-> [uri |-> uri, version |-> c.version],
                            contentChanges |-> c.changes])))

\* BufWritePost, after its alive() check
textDocument_didSave ==
    /\ cur.op = "textDocument_didSave"
    /\ Commit(Finish(RpcNotify(Keep, "textDocument/didSave",
                               [textDocument |-> [uri |-> ArgUri]])))

\* LanguageClient_textDocument_completion, after its alive() check: the call
\* is made without a callback
textDocument_completion ==
    /\ cur.op = "textDocument_completion"
    /\ Commit(Finish(RpcCall(Keep, "textDocument/completion",
                             PositionParams(ArgUri), None)))

\* LanguageClient_exit, after its alive() check
exit ==
    /\ cur.op = "exit"
    /\ Commit(Finish(RpcNotify(Keep, "exit", NoParams)))

(***************************************************************************)
(* The serve thread of each RPC, the server subprocess and the user.        *)
(***************************************************************************)
\* the frames the model lets RPC p read: crash is only chosen where there
\* is something open, and a server message that makes the client issue a
\* request is read while the client has requests left
CanServe(p, m, crash) ==
    /\ crash =>
          \/ (m.id \in DOMAIN rpcs[p].queue /\ rpcs[p].queue[m.id] = None
                /\ m.method = None /\ m.result # None)
          \/ (m.method = "textDocument/didClose" /\ m.params = ArgsParams
                /\ m.id \notin DOMAIN rpcs[p].queue /\ alive)
    /\ m.method = "initialize" => CallsMade < MaxCalls

\* rpc.serve of RPC p reads one frame and dispatches it: a frame its server
\* has just written, or one left in the pipe by a server that has exited
Serve(p, m, crash) ==
    /\ rpcs[p].loop = "running"
    /\ CanServe(p, m, crash)
    /\ Commit(OnFrame([Keep EXCEPT !.read = [proc |-> p, msg |-> m]], p, m, crash))

\* rpc.serve of RPC p reads the end of the stream of a server that has exited
ServeClosed(p) ==
    /\ rpcs[p].loop = "running"
    /\ ~Writable(p)
    /\ Commit(LoopEnds(Keep, p))

\* the server subprocess exits
ServerExit ==
    /\ alive
    /\ Commit([Keep EXCEPT !.serverUp = FALSE])

\* the user moves to a buffer, or edits the current one
BufferChange(texts) ==
    \E b \in Bufs, ls \in texts :
        /\ <<b, ls>> # <<curBuf, bufLines>>
        /\ Commit([Keep EXCEPT !.curBuf = b, !.bufLines = ls])


(***************************************************************************)
(* The specification of the plugin.                                         *)
(***************************************************************************)
\* the buffer contents the user produces in the full specification
EditTexts == {<< <<"x">> >>, << <<"x">>, <<"y">> >>}

Init ==
    /\ server = 0
    /\ serverUp = FALSE
    /\ rpc = 0
    /\ rpcs = [p \in Procs |-> NoRpc]
    /\ capabilities = << >>
    /\ textDocuments = EmptyFn
    /\ curBuf \in Bufs
    /\ bufLines \in EditTexts
    /\ cur = Idle
    /\ todo = << >>
    /\ read = NoRead
    /\ out = NoFrame
    /\ called = NoCall
    /\ errored = NoMessage
    /\ asyncOut = << >>
    /\ raised = None
    /\ serverDocs = EmptyFn
    /\ invokedIds = {}
    /\ lastId = [p \in Procs |-> 0]

Next ==
    \/ \E op \in EditorOps : \E u \in UriArgs(op), c \in CbArgs(op) : EditorEvent(op, u, c)
    \/ StartContinues
    \/ \E survives \in BOOLEAN : start(survives)
    \/ initialize
    \/ textDocument_didOpen
    \/ textDocument_didClose
    \/ textDocument_hover
    \/ textDocument_definition
    \/ \E fzf \in BOOLEAN : textDocument_documentSymbol(fzf)
    \/ \E rejects \in BOOLEAN : textDocument_didChange(rejects)
    \/ textDocument_didSave
    \/ textDocument_completion
    \/ exit
    \/ \E p \in Procs, m \in InFrames, crash \in BOOLEAN : Serve(p, m, crash)
    \/ \E p \in Procs : ServeClosed(p)
    \/ ServerExit
    \/ BufferChange(EditTexts)

Spec == Init /\ [][Next]_vars


(***************************************************************************)
(* The transport on its own: the user stays in one buffer and only makes    *)
(* requests; the server answers, sends messages of its own and exits.       *)
(***************************************************************************)
InitRpc ==
    /\ Init
    /\ curBuf = "a"
    /\ bufLines = << <<"x">> >>

NextRpc ==
    \/ \E op \in CallOps : \E u \in UriArgs(op), c \in CbArgs(op) : EditorEvent(op, u, c)
    \/ StartContinues
    \/ \E survives \in BOOLEAN : start(survives)
    \/ initialize
    \/ textDocument_didOpen
    \/ textDocument_hover
    \/ textDocument_definition
    \/ \E fzf \in BOOLEAN : textDocument_documentSymbol(fzf)
    \/ textDocument_completion
    \/ \E p \in Procs, m \in InFrames, crash \in BOOLEAN : Serve(p, m, crash)
    \/ \E p \in Procs : ServeClosed(p)
    \/ ServerExit

SpecRpc == InitRpc /\ [][NextRpc]_vars

(***************************************************************************)
(* Document synchronisation on its own: the user edits, opens, closes and   *)
(* saves buffers and restarts the server; the server sends nothing.         *)
(***************************************************************************)
DocOps == {"textDocument_didOpen", "textDocument_didChange", "textDocument_didClose",
           "textDocument_didSave", "exit"}

NextDocs ==
    \/ \E op \in DocOps : \E u \in UriArgs(op), c \in CbArgs(op) : EditorEvent(op, u, c)
    \/ StartContinues
    \/ \E survives \in BOOLEAN : start(survives)
    \/ initialize
    \/ textDocument_didOpen
    \/ textDocument_didClose
    \/ \E rejects \in BOOLEAN : textDocument_didChange(rejects)
    \/ textDocument_didSave
    \/ exit
    \/ \E p \in Procs : ServeClosed(p)
    \/ ServerExit
    \/ BufferChange(EditTexts)

SpecDocs == Init /\ [][NextDocs]_vars


(***************************************************************************)
(* The diff on its own: one document is tracked under a running server,     *)
(* with any stored text, and the buffer holds any text; the user edits and  *)
(* the change reaches the document.                                         *)
(***************************************************************************)
DiffTexts == BuffersUpTo(MaxLines)

InitDiff ==
    /\ server = 1
    /\ serverUp = TRUE
    /\ rpc = 1
    /\ rpcs = [p \in Procs |-> IF p = 1
                               THEN [mid |-> 2,
                                     queue |-> Put(EmptyFn, 1, "handleInitializeResponse"),
                                     loop |-> "running"]
                               ELSE NoRpc]
    /\ capabilities = << >>
    /\ curBuf = "a"
    /\ bufLines \in DiffTexts
    /\ \E ls \in DiffTexts :
          /\ textDocuments = Put(EmptyFn, "a", NewTextDocumentItem("a", "filetype", BufferText(ls)))
          /\ serverDocs = Put(EmptyFn, "a", [version |-> 1, text |-> BufferText(ls)])
    /\ cur = Idle
    /\ todo = << >>
    /\ read = NoRead
    /\ out = NoFrame
    /\ called = NoCall
    /\ errored = NoMessage
    /\ asyncOut = << >>
    /\ raised = None
    /\ invokedIds = {}
    /\ lastId = [p \in Procs |-> IF p = 1 THEN 1 ELSE 0]

NextDiff ==
    \/ EditorEvent("textDocument_didChange", None, None)
    \/ \E rejects \in BOOLEAN : textDocument_didChange(rejects)

SpecDiff == InitDiff /\ [][NextDiff]_vars


(***************************************************************************)
(* Properties of the transport, checked under SpecRpc.                      *)
(***************************************************************************)
\* a frame that answers a request: an id, no method, and a result or error
IsResponse(m) == m.method = None /\ m.id # 0 /\ ~m.garbage /\ (m.result # None \/ m.error)
IsResult(m) == IsResponse(m) /\ ~m.error

\* C1: a result frame whose id is pending invokes exactly the callback the
\* call that allocated that id registered (the handler's default, or the cb
\* its args carried), with that frame's result, and removes the id from the
\* pending mapping in the same step; a pending entry never changes its
\* callback while it waits.
C1_ResponseInvokesRegisteredCallback ==
    [][/\ out'.method = "initialize" =>
            rpcs'[out'.proc].queue[out'.id] =
                (IF cur.cb = None THEN "handleInitializeResponse" ELSE cur.cb)
       /\ out'.method = "textDocument/hover" =>
            rpcs'[out'.proc].queue[out'.id] = "handleTextDocumentHoverResponse"
       /\ out'.method = "textDocument/definition" =>
            rpcs'[out'.proc].queue[out'.id] = "handleTextDocumentDefinitionResponse"
       /\ \A p \in Procs :
            \A id \in DOMAIN rpcs[p].queue \cap DOMAIN rpcs'[p].queue :
                rpcs'[p].queue[id] = rpcs[p].queue[id]
       /\ (read'.proc # 0 /\ IsResult(read'.msg)
             /\ read'.msg.id \in DOMAIN rpcs[read'.proc].queue) =>
            LET p == read'.proc
                id == read'.msg.id
                cb == rpcs[p].queue[id]
            IN  /\ id \notin DOMAIN rpcs'[p].queue
                /\ called' = IF cb = None THEN NoCall
                             ELSE [proc |-> p, id |-> id, cb |-> cb,
                                   result |-> read'.msg.result]
                /\ cb = "handleInitializeResponse" =>
                       capabilities' = <<"capabilities", read'.msg.result>>
      ]_vars

\* C1 witness: the callback an initialize call carried in its args has been
\* invoked with the result of the frame just read, and its id is gone
C1_Witness ==
    /\ called.cb = "userCb"
    /\ read.msg.id = called.id
    /\ called.result = read.msg.result
    /\ called.id \notin DOMAIN rpcs[called.proc].queue

\* C2: no callback is invoked twice; an invocation removes its id; an id that
\* has left the pending mapping never returns to it; when a serve loop ends
\* its pending mapping is emptied.
C2_AtMostOnce ==
    [][/\ called'.proc # 0 =>
            /\ <<called'.proc, called'.id>> \notin invokedIds
            /\ called'.id \notin DOMAIN rpcs'[called'.proc].queue
       /\ \A p \in Procs : \A id \in 1..lastId[p] :
            id \notin DOMAIN rpcs[p].queue => id \notin DOMAIN rpcs'[p].queue
       /\ \A p \in Procs :
            (rpcs[p].loop = "running" /\ rpcs'[p].loop = "closed")
                => rpcs'[p].queue = EmptyFn
      ]_vars

\* C2 witness: a second response to an id whose callback has already been
\* invoked was read, and invoked nothing
C2_Witness ==
    /\ read.proc # 0
    /\ IsResult(read.msg)
    /\ <<read.proc, read.msg.id>> \in invokedIds
    /\ called = NoCall

\* C3: on one RPC the ids of successive requests strictly increase, starting
\* at 1, whatever responses were dispatched in between.
C3_IdsIncrease ==
    [][out'.id # 0 =>
          /\ out'.id > lastId[out'.proc]
          /\ lastId[out'.proc] = 0 => out'.id = 1
      ]_vars

\* C3 witness: the second request of an RPC went out after the response to
\* its first had emptied the pending mapping
C3_Witness ==
    /\ out.id = 2
    /\ DOMAIN rpcs[out.proc].queue = {2}
    /\ <<out.proc, 1>> \in invokedIds

C9_ClosedCallFails ==
    [][/\ (cur.op \in CallOps /\ cur'.op = "idle" /\ ~Writable(rpc)) =>
            /\ raised' = "TransportClosed"
            /\ out'.method = None
            /\ rpcs' = rpcs
            /\ called' = NoCall
       /\ (cur.op = "idle" /\ ~alive) =>
            /\ cur'.op = "idle"
            /\ out'.method = None
            /\ \A p \in Procs : DOMAIN rpcs'[p].queue \subseteq DOMAIN rpcs[p].queue
      ]_vars

\* C9 witness: a call has just failed on a server that exited after alive()
C9_Witness ==
    /\ raised = "TransportClosed"
    /\ server # 0 /\ ~serverUp
    /\ out.method = None
    /\ lastId[rpc] = 1

\* C10: a response whose id is not pending is handed to handleError, which
\* echoes it; no callback is invoked, the pending mapping is unchanged and
\* the serve loop keeps running.
C10_StrayResponse ==
    [][(read'.proc # 0 /\ IsResponse(read'.msg)
          /\ read'.msg.id \notin DOMAIN rpcs[read'.proc].queue) =>
            /\ errored' = read'.msg
            /\ asyncOut' = << <<"echo", "json.dumps(message)">> >>
            /\ called' = NoCall
            /\ rpcs' = rpcs
            /\ rpcs'[read'.proc].loop = "running"
      ]_vars

\* C10 witness: a response to an id never issued was reported while a call
\* is still pending on the same, running loop
C10_Witness ==
    /\ read.proc # 0
    /\ IsResponse(read.msg)
    /\ read.msg.id > lastId[read.proc]
    /\ errored = read.msg
    /\ rpcs[read.proc].loop = "running"
    /\ rpcs[read.proc].queue # EmptyFn


(***************************************************************************)
(* Properties of document synchronisation, checked under SpecDocs, and of   *)
(* the diff, checked under SpecDiff.                                        *)
(***************************************************************************)
\* the step is the body of textDocument_didChange reaching change() for u,
\* and change() going through
ChangesDocument(u) ==
    /\ cur.op = "textDocument_didChange"
    /\ cur'.op = "idle"
    /\ ArgUri = u
    /\ raised' # "ValueError"

\* C5: while a uri stays tracked its version goes up by exactly one with
\* every change() that reaches its document and moves at no other step, so
\* after n changes it is the initial version plus n and it never decreases
\* or repeats.
C5_VersionMonotone ==
    [][\A u \in DOMAIN textDocuments \cap DOMAIN textDocuments' :
          textDocuments'[u].version =
              IF ChangesDocument(u) THEN textDocuments[u].version + 1
              ELSE textDocuments[u].version
      ]_vars

\* C6: the contentChanges of a didChange notification, applied in order to
\* the text stored before the change, give the new full text of the buffer
\* (every line followed by its terminator), which is also the text stored
\* after the change.
C6_DiffReconstructs ==
    [][out'.method = "textDocument/didChange" =>
          LET u == out'.params.textDocument.uri
          IN  /\ ApplyEvents(textDocuments[u].text, out'.params.contentChanges)
                    = BufferText(bufLines)
              /\ textDocuments'[u].text = BufferText(bufLines)
      ]_vars

\* C6 witness: a didChange went out with one incremental event that replaces
\* lines in the middle of the text by other lines, lines before and after it
\* being kept
C6_Witness ==
    /\ out.method = "textDocument/didChange"
    /\ Len(out.params.contentChanges) = 1
    /\ LET ev == out.params.contentChanges[1]
       IN  /\ ev.kind = "incremental"
           /\ ev.range.start.line >= 1
           /\ ev.range.end.line > ev.range.start.line
           /\ ev.newText # << >>
           /\ Len(bufLines) > ev.range.start.line + 1

\* the document table as a server would hold it
ClientView == [u \in DOMAIN textDocuments |->
                  [version |-> textDocuments[u].version, text |-> textDocuments[u].text]]

\* C7: whenever the server runs and no handler is under way, a server that
\* replayed the didOpen, didChange and didClose notifications of its
\* connection holds exactly the documents of the client's table, each with
\* the client's version and text.
C7_ServerViewConsistent ==
    (alive /\ cur = Idle /\ todo = << >>) => serverDocs = ClientView

\* C8: textDocument_didOpen for a uri that is already tracked leaves the
\* entry of that uri, its version and its text, as it was.
C8_OpenKeepsTrackedEntry ==
    [][(cur.op = "textDocument_didOpen" /\ cur'.op = "idle") =>
          \A u \in DOMAIN textDocuments :
              /\ u \in DOMAIN textDocuments'
              /\ textDocuments'[u] = textDocuments[u]
      ]_vars


(***************************************************************************)
(* The serve loop under closure: the user makes requests, the server        *)
(* answers some of them and exits.  The serve thread of an RPC is a thread  *)
(* of its own (start, threading.Thread(target=self.rpc.serve)): once the    *)
(* subprocess has exited its read returns, so the step that sees the end    *)
(* of the stream is taken eventually.                                       *)
(***************************************************************************)
LoopOps == {"textDocument_hover", "textDocument_completion"}
LoopFrames == {Response(i, "r1") : i \in ResponseIds}
              \cup {[NoMessage EXCEPT !.garbage = TRUE]}

NextLoop ==
    \/ \E op \in LoopOps : EditorEvent(op, None, None)
    \/ StartContinues
    \/ \E survives \in BOOLEAN : start(survives)
    \/ initialize
    \/ textDocument_didOpen
    \/ textDocument_hover
    \/ textDocument_completion
    \/ \E p \in Procs, m \in LoopFrames, crash \in BOOLEAN : Serve(p, m, crash)
    \/ \E p \in Procs : ServeClosed(p)
    \/ ServerExit

SpecLoop ==
    /\ InitRpc
    /\ [][NextLoop]_vars
    /\ \A p \in Procs : WF_vars(ServeClosed(p))

ServeEnters(p, m, crash) ==
    /\ rpcs[p].loop = "running"
    /\ CanServe(p, m, crash)
    /\ LET e == OnFrame([Keep EXCEPT !.read = [proc |-> p, msg |-> m]], p, m, crash)
       IN  Commit(IF e.called.proc = 0 THEN e
                  ELSE [e EXCEPT !.rpcs[p].loop = "callback"])

\* the callback the loop of RPC p is inside returns
CallbackReturns(p) ==
    /\ rpcs[p].loop = "callback"
    /\ Commit([Keep EXCEPT !.rpcs[p].loop = "running"])

NextCallbacks ==
    \/ \E op \in LoopOps : EditorEvent(op, None, None)
    \/ StartContinues
    \/ \E survives \in BOOLEAN : start(survives)
    \/ initialize
    \/ textDocument_didOpen
    \/ textDocument_hover
    \/ textDocument_completion
    \/ \E p \in Procs, m \in LoopFrames, crash \in BOOLEAN : ServeEnters(p, m, crash)
    \/ \E p \in Procs : CallbackReturns(p)
    \/ \E p \in Procs : ServeClosed(p)
    \/ ServerExit

SpecCallbacks == InitRpc /\ [][NextCallbacks]_vars

\* the RPCs whose serve thread is inside a callback
InCallback == {p \in Procs : rpcs[p].loop = "callback"}

\* C12: at most one callback runs at a time; a callback is entered in the
\* step that read the response to its call, and while it runs no frame is
\* read by its loop.
C12_CallbacksSerialized ==
    /\ Cardinality(InCallback) <= 1
    /\ called.proc # 0 => (read.proc = called.proc /\ read.msg.id = called.id)
    /\ read.proc # 0 => (read.proc \in InCallback <=> called.proc = read.proc)


(***************************************************************************)
(* Handlers on the plugin host: the user makes requests with and without    *)
(* callback and saves; the server answers when it likes, or never.  The     *)
(* host runs a handler it has entered to its end, so the body of a handler  *)
(* is weakly fair; nothing is assumed of the server or the serve loop.      *)
(***************************************************************************)
HostOps == {"textDocument_completion", "textDocument_documentSymbol",
            "textDocument_didSave"}

\* the body of the handler the plugin host is in
HandlerBody ==
    \/ initialize
    \/ textDocument_didOpen
    \/ \E fzf \in BOOLEAN : textDocument_documentSymbol(fzf)
    \/ textDocument_completion
    \/ textDocument_didSave

NextHost ==
    \/ \E op \in HostOps : EditorEvent(op, None, None)
    \/ StartContinues
    \/ \E survives \in BOOLEAN : start(survives)
    \/ HandlerBody
    \/ \E p \in Procs, m \in LoopFrames, crash \in BOOLEAN : Serve(p, m, crash)
    \/ \E p \in Procs : ServeClosed(p)
    \/ ServerExit

SpecHost == InitRpc /\ [][NextHost]_vars /\ WF_vars(HandlerBody)

C14_NoOpFiltered ==
    [][(/\ cur.op = "textDocument_didChange" /\ cur'.op = "idle"
        /\ ArgUri \in DOMAIN textDocuments
        /\ textDocuments[ArgUri].text = BufferText(bufLines)) =>
            /\ textDocuments' = textDocuments
            /\ out'.method = None
      ]_vars


\* the lines at which two line lists of equal length differ
DifferingLines(o, n) == {i \in 1..Len(o) : o[i] # n[i]}

startLaunches ==
    /\ cur = Idle /\ todo = << >>
    /\ IF alive
       THEN Commit(asyncEcho(Keep, <<"Language client has already started.">>))
       ELSE IF ~HasServerCommand(curBuf)
       THEN Commit(asyncEcho(Keep, <<"No language server commmand found">>))
       ELSE /\ server < MaxProcs
            /\ CallsMade < MaxCalls
            /\ Commit([Keep EXCEPT !.server = server + 1, !.serverUp = TRUE,
                                   !.cur = [Idle EXCEPT !.op = "start"]])

\* LanguageClientStart after its sleep: the alive() check, the RPC of the
\* subprocess and its serve thread, then initialize and didOpen
startConstructs ==
    /\ cur.op = "start"
    /\ IF ~alive
       THEN Commit(asyncEcho([Keep EXCEPT !.cur = Idle], <<"Failed to start server.">>))
       ELSE Commit(ConstructRpc(
                [Keep EXCEPT !.cur = Idle,
                             !.todo = <<"initialize", "textDocument_didOpen">>],
                server))

DispatchOps == {"exit"}
DispatchFrames ==
    {Response(1, "r1"),
     ServerMessage(0, "textDocument/publishDiagnostics", "diagnostics"),
     ServerMessage(0, "textDocument/publishDiagnostics", None),
     ServerMessage(1, "window/logMessage", "diagnostics"),
     ServerMessage(0, "textDocument/didOpen", ArgsParams),
     ServerMessage(0, "textDocument/didClose", ArgsParams),
     ServerMessage(2, "initialize", ArgsParams),
     ServerMessage(0, "exit", "diagnostics")}

NextDispatch ==
    \/ \E op \in DispatchOps : EditorEvent(op, None, None)
    \/ StartContinues
    \/ startLaunches
    \/ startConstructs
    \/ initialize
    \/ textDocument_didOpen
    \/ exit
    \/ \E p \in Procs, m \in DispatchFrames, crash \in BOOLEAN : Serve(p, m, crash)
    \/ \E p \in Procs : ServeClosed(p)
    \/ ServerExit

SpecDispatch == InitRpc /\ [][NextDispatch]_vars

\* this step, the serve loop of RPC p read a server message: a frame with a
\* method whose id is no pending request
ReadsServerMessage(p) ==
    /\ read'.proc = p
    /\ ~read'.msg.garbage
    /\ read'.msg.method # None
    /\ read'.msg.id \notin DOMAIN rpcs[p].queue

\* C16: a server message whose handler raises, whose params are missing or
\* whose method has no handler leaves no exception behind: the serve loop
\* that read it is still running, so later frames are still read and
\* dispatched, and the handler the editor is in is left as it is.
C16_FailureContained ==
    [][\A p \in Procs :
          (/\ ReadsServerMessage(p)
           /\ \/ MethodAttr(read'.msg.method) \notin HandlerNames
              \/ read'.msg.params = None
              \/ MethodAttr(read'.msg.method) = "textDocument_didOpen"
              \/ (MethodAttr(read'.msg.method) = "exit" /\ alive /\ rpc # server))
          => /\ raised' = None
             /\ rpcs'[p].loop = "running"
             /\ rpcs'[p].queue = rpcs[p].queue
             /\ cur' = cur /\ todo' = todo]_vars

\* the serve loop has just read a didOpen message, whose handler raised,
\* and is still running
C16_Witness ==
    /\ read.proc # 0
    /\ read.msg = ServerMessage(0, "textDocument/didOpen", ArgsParams)
    /\ rpcs[read.proc].loop = "running"
    /\ raised = None

\* C20: a server message only ever runs a handler of server messages: one
\* whose method is not such a handler writes no frame, registers no request
\* and leaves the tracked documents as they are.
C20_DispatchConfined ==
    [][\A p \in Procs :
          (/\ ReadsServerMessage(p)
           /\ MethodAttr(read'.msg.method) # "textDocument_publishDiagnostics")
          => /\ out' = NoFrame
             /\ lastId' = lastId
             /\ textDocuments' = textDocuments]_vars

\* this step, a handler that passed its alive() check reaches self.rpc: on
\* the thread of the editor, or called by a serve loop
UsesRpc ==
    \/ cur.op \in {"initialize", "textDocument_didOpen", "exit"} /\ cur'.op = "idle"
    \/ \E p \in Procs :
          /\ ReadsServerMessage(p)
          /\ read'.msg.params # None
          /\ alive
          /\ \/ MethodAttr(read'.msg.method) = "exit"
             \/ (MethodAttr(read'.msg.method) = "initialize"
                  /\ read'.msg.params = ArgsParams)

\* C19: a handler that passed its alive() check and reaches self.rpc finds
\* an RPC there, and it is the RPC of the subprocess launched last.
C19_TransportOfLiveServer ==
    [][UsesRpc => (rpc # 0 /\ rpc = server)]_vars


(***************************************************************************)
(* Closing documents, under SpecDocs.                                      *)
(***************************************************************************)
\* this step, the table loses exactly the entry of uri
RemovesEntry(uri) ==
    /\ DOMAIN textDocuments' = DOMAIN textDocuments \ {uri}
    /\ \A v \in DOMAIN textDocuments' : textDocuments'[v] = textDocuments[v]

\* this step writes the one frame textDocument/didClose of uri
WritesDidClose(uri) ==
    /\ out'.proc = rpc /\ out'.id = 0
    /\ out'.method = "textDocument/didClose"
    /\ out'.params = [textDocument |-> [uri |-> uri]]

\* this step, textDocument_didClose runs from its alive() check to its end
ClosesDocument == cur.op = "textDocument_didClose" /\ cur' # cur

\* C17: textDocument_didClose past its alive() check: for a uri that is not
\* tracked it raises KeyError, leaves the table as it is and writes no
\* frame; for a tracked uri it removes exactly that entry and returns, and
\* it has written exactly one didClose frame of that uri when the server is
\* still running, no frame and the error of the write when the server has
\* exited since the check.
C17_CloseUntrackedRaises ==
    [][ClosesDocument =>
          /\ cur' = Idle
          /\ IF ArgUri \notin DOMAIN textDocuments
             THEN /\ raised' = "KeyError"
                  /\ textDocuments' = textDocuments
                  /\ out' = NoFrame
             ELSE /\ RemovesEntry(ArgUri)
                  /\ IF Writable(rpc)
                     THEN WritesDidClose(ArgUri) /\ raised' = None
                     ELSE out' = NoFrame /\ raised' = "TransportClosed"]_vars

\* a close of a uri that is not tracked has raised, with another document
\* tracked and still there
C17_Witness ==
    /\ raised = "KeyError"
    /\ cur = Idle
    /\ out = NoFrame
    /\ textDocuments # EmptyFn

\* C17 as stated: a tracked uri is removed and its didClose frame written,
\* whatever has become of the server.
C17_Original_CloseAlwaysWrites ==
    [][ClosesDocument =>
          IF ArgUri \notin DOMAIN textDocuments
          THEN /\ raised' # None
               /\ textDocuments' = textDocuments
               /\ out' = NoFrame
          ELSE /\ RemovesEntry(ArgUri)
               /\ WritesDidClose(ArgUri)]_vars


\* C18: every textDocument/didChange written to a server follows, on the
\* connection to that server, a textDocument/didOpen of the same uri with
\* no textDocument/didClose of it since: the server holds the document.
C18_OpenBeforeChange ==
    [][out'.method = "textDocument/didChange" =>
          /\ out'.proc = server
          /\ out'.params.textDocument.uri \in DOMAIN serverDocs]_vars

====
